---- MODULE Spec2Model ----
(***************************************************************************)
(* A model of atlasV2Gen.py: the batch script that turns a ring table into *)
(* a 3D voxel map, a 2D matrix and a CSV wiring report.                    *)
(*                                                                         *)
(* The script's floating point values are modelled in fixed point:         *)
(* lengths with six decimals (a value v is the integer v * FP), angles and *)
(* their cosines and sines with eight (v * TrigFP).  A coordinate is off   *)
(* the script's double by less than 0.00002 voxels, so it rounds to the    *)
(* script's cell unless the double lies that close to a half.  The initial *)
(* states are the configuration the script ships with (whose coordinates   *)
(* stay 0.00017 away from a half) and a family of small ring tables on     *)
(* three grids: on sizes 2 and 6 no coordinate comes near a half, and on   *)
(* size 9, whose centre 4.5 is a half, the script's doubles round as the   *)
(* exact values do (4.5 to the even 4).  On other grids the cell the       *)
(* script picks for a coordinate at a half depends on the last bit of a    *)
(* double (1.5 - 2e-16 rounds to 1, 1.5 to 2), which fixed point does not  *)
(* have.                                                                   *)
(* generate_voxel_string and the XML templates are pure serialisation of   *)
(* values held here and are not modelled.                                  *)
(***************************************************************************)
EXTENDS Integers, Sequences, FiniteSets, TLC

\* ------------------------------------------------------------ bounds
MaxLeds == 4
MaxWidth == 4
RingIds == {1, 2, 4}
GridSizes == {2, 6, 9}

\* ------------------------------------------------------------ arithmetic
FP == 10^6
\* the scale of angles, cosines and sines
TrigFP == 10^8
\* math.pi, at the scale of angles
TrigPI == 314159265

Abs(v) == IF v < 0 THEN -v ELSE v
Max2(a, b) == IF a > b THEN a ELSE b
Min2(a, b) == IF a < b THEN a ELSE b

\* The product of two non-negative fixed-point values, rounded to nearest.
\* The operands are split in thousands so that no intermediate value leaves
\* the 32-bit integers.
MulAbs(a, b) ==
    LET ah == a \div 1000
        al == a % 1000
        bh == b \div 1000
        bl == b % 1000
    IN  ah * bh + ((ah * bl + al * bh + ((al * bl + 500000) \div 1000)) \div 1000)

\* The product a * b of a non-negative value a of either scale and a
\* non-negative angle, cosine or sine b, at the scale of a, rounded to
\* nearest.  The operands are split in ten thousands.
MulTrigAbs(a, b) ==
    LET ah == a \div 10000
        al == a % 10000
        bh == b \div 10000
        bl == b % 10000
    IN  ah * bh + ((ah * bl + al * bh + ((al * bl + 50000000) \div 10000)) \div 10000)

\* One step of long division by c: one more decimal of the quotient.
DivStep(qr, c) == << qr[1] * 10 + ((qr[2] * 10) \div c), (qr[2] * 10) % c >>

\* The quotient of two non-negative fixed-point values (b > 0), rounded to
\* nearest.
DivAbs(a, b) ==
    LET s == DivStep(DivStep(DivStep(DivStep(DivStep(DivStep(
                 << a \div b, a % b >>, b), b), b), b), b), b)
    IN  IF 2 * s[2] >= b THEN s[1] + 1 ELSE s[1]

\* float multiplication and division
MulFP(a, b) ==
    IF (a < 0) # (b < 0) THEN -MulAbs(Abs(a), Abs(b)) ELSE MulAbs(Abs(a), Abs(b))
DivFP(a, b) ==
    IF (a < 0) # (b < 0) THEN -DivAbs(Abs(a), Abs(b)) ELSE DivAbs(Abs(a), Abs(b))
\* float multiplication by an angle, a cosine or a sine
MulTrig(a, b) ==
    IF (a < 0) # (b < 0) THEN -MulTrigAbs(Abs(a), Abs(b))
    ELSE MulTrigAbs(Abs(a), Abs(b))

\* n / d rounded to nearest, d a positive integer
RoundDiv(n, d) == (2 * n + d) \div (2 * d)

\* math.pi, at the scale of lengths
PI == RoundDiv(TrigPI, 100)

\* cos on [0, pi/2], by its series in Horner form; t2 is the angle squared
RECURSIVE CosSeries(_, _, _)
CosSeries(t2, k, acc) ==
    IF k = 0 THEN acc
    ELSE CosSeries(t2, k - 1,
                   TrigFP - RoundDiv(MulTrig(t2, acc), (2 * k - 1) * (2 * k)))

\* math.cos
Cos(theta) ==
    LET a == Abs(theta)
        b == IF a > TrigPI THEN 2 * TrigPI - a ELSE a
    IN  IF 2 * b > TrigPI
        THEN -CosSeries(MulTrig(TrigPI - b, TrigPI - b), 7, TrigFP)
        ELSE CosSeries(MulTrig(b, b), 7, TrigFP)

\* math.sin
Sin(theta) == Cos(theta - RoundDiv(TrigPI, 2))

\* int(round(v)): Python rounds a tie to the even neighbour
RoundHalfEven(v) ==
    LET q == v \div FP
        r == v % FP
    IN  IF 2 * r < FP THEN q
        ELSE IF 2 * r > FP THEN q + 1
        ELSE IF q % 2 = 0 THEN q ELSE q + 1

\* a clamp that forgets the upper bound
ClampLowOnly(grid_size, v) == Max2(0, v)

\* max(0, min(grid_size - 1, v))
Clamp(grid_size, v) == Max2(0, Min2(grid_size - 1, v))

\* list.reverse()
Reverse(s) == [k \in 1..Len(s) |-> s[Len(s) + 1 - k]]

\* sorted(rings.keys())
RECURSIVE Sorted(_)
Sorted(S) ==
    IF S = {} THEN <<>>
    ELSE LET m == CHOOSE x \in S : \A y \in S : x <= y
         IN  <<m>> \o Sorted(S \ {m})

\* ------------------------------------------------------------ geometry
\* A ring table maps a ring id to <<led count, is reversed>>.
get_max_leds(rings) ==
    LET counts == {rings[r][1] : r \in DOMAIN rings}
    IN  CHOOSE c \in counts : \A d \in counts : d <= c

Padding(grid_size) == MulFP(grid_size * FP, FP \div 10)
UsableRadius(grid_size) == DivFP(grid_size * FP, 2 * FP) - Padding(grid_size)
Center(grid_size) == DivFP(grid_size * FP, 2 * FP)
RadiusInLedUnits(rings) == DivFP(get_max_leds(rings) * FP, 2 * PI)
VoxelsPerLedPitch(rings, grid_size) ==
    DivFP(UsableRadius(grid_size), RadiusInLedUnits(rings))
VerticalStep(rings, grid_size) == VoxelsPerLedPitch(rings, grid_size)
TotalHeightVoxels(rings, grid_size) ==
    (Cardinality(DOMAIN rings) - 1) * VerticalStep(rings, grid_size)
StartY(rings, grid_size) ==
    DivFP(grid_size * FP - TotalHeightVoxels(rings, grid_size), 2 * FP)

\* the height of the ring at 0-based sorted index i
GridY(rings, grid_size, do_flip, i) ==
    IF do_flip
    THEN (StartY(rings, grid_size) + TotalHeightVoxels(rings, grid_size))
             - i * VerticalStep(rings, grid_size)
    ELSE StartY(rings, grid_size) + i * VerticalStep(rings, grid_size)

CurrentRadiusVoxels(rings, grid_size, count) ==
    MulFP(DivFP(count * FP, 2 * PI), VoxelsPerLedPitch(rings, grid_size))

\* np.linspace(0, 2*pi, num=count, endpoint=False)
Thetas(count) ==
    LET step == RoundDiv(2 * TrigPI, count)
    IN  [p \in 1..count |-> (p - 1) * step]

\* offsets that ignore the wiring direction
PixelIndicesForward(count, is_reversed) == [p \in 1..count |-> p - 1]

\* list(range(count)), reversed when the ring is
PixelIndices(count, is_reversed) ==
    LET idx == [p \in 1..count |-> p - 1]
    IN  IF is_reversed THEN Reverse(idx) ELSE idx

\* the ring table of the script
ShippedRings ==
    << <<53, FALSE>>, <<59, TRUE>>, <<65, FALSE>>, <<69, TRUE>>, <<71, FALSE>>,
       <<73, TRUE>>, <<75, FALSE>>, <<77, TRUE>>, <<79, FALSE>>, <<81, TRUE>>,
       <<79, FALSE>>, <<77, TRUE>>, <<75, FALSE>>, <<73, TRUE>>, <<71, FALSE>>,
       <<69, TRUE>>, <<65, FALSE>>, <<59, TRUE>>, <<53, FALSE>>, <<45, TRUE>>,
       <<35, FALSE>>, <<19, TRUE>> >>
ShippedFlipVertically == TRUE
ShippedGridSize == 120
ShippedMatrixWidth == 500

\* the ring sizes the model draws
LedCounts ==
    (1..MaxLeds) \cup {ShippedRings[r][1] : r \in DOMAIN ShippedRings}

\* <<math.cos(theta), math.sin(theta)>> for the angles of a ring of every
\* size the model draws (evaluated once)
UnitCircle ==
    [count \in LedCounts |->
        [p \in 1..count |-> << Cos(Thetas(count)[p]), Sin(Thetas(count)[p]) >>]]

\* the rounded cell of an LED, before clamping; cs is <<cos, sin>> of its angle
RawCell(center, radius, grid_y, cs) ==
    << RoundHalfEven(center + MulTrig(radius, cs[1])),
       RoundHalfEven(grid_y),
       RoundHalfEven(center + MulTrig(radius, cs[2])) >>

\* the clamp to the grid
ClampCell(grid_size, c) ==
    << Clamp(grid_size, c[1]), Clamp(grid_size, c[2]), Clamp(grid_size, c[3]) >>

\* a counter that advances one short
NextChannelShort(channel, count) == channel + count - 1

\* current_channel += count
NextChannel(channel, count) == channel + count

\* current_ch += count
NextCh(ch, count) == ch + count

\* report_led += count
NextReportLed(led, count) == led + count

\* a map in which the first channel written to a cell stays
PutIfAbsent(pos, later) == pos @@ later

\* positions[(x, y, z)] = channel, for the cells and channels of the map
\* later: a cell assigned again holds the later channel
Put(pos, later) == later @@ pos

\* the writes of one ring, in the order of the inner loop
RingWrites(rings, grid_size, do_flip, i, ring_num, channel) ==
    LET count == rings[ring_num][1]
        center == Center(grid_size)
        grid_y == GridY(rings, grid_size, do_flip, i)
        radius == CurrentRadiusVoxels(rings, grid_size, count)
        px == PixelIndices(count, rings[ring_num][2])
        raw == [p \in 1..count |->
                   RawCell(center, radius, grid_y, UnitCircle[count][p])]
    IN  [p \in 1..count |->
            [ring |-> ring_num, slot |-> p - 1, raw |-> raw[p],
             cell |-> ClampCell(grid_size, raw[p]),
             ch |-> channel + px[p]]]

\* the map the writes ws[lo], ..., ws[hi] make of an empty one, in that
\* order (the range is halved to keep the recursion shallow)
RECURSIVE WrittenBy(_, _, _)
WrittenBy(ws, lo, hi) ==
    IF lo = hi THEN ws[lo].cell :> ws[lo].ch
    ELSE LET mid == (lo + hi) \div 2
         IN  Put(WrittenBy(ws, lo, mid), WrittenBy(ws, mid + 1, hi))

\* the map after the writes of a ring
ApplyWrites(pos, ws) == Put(pos, WrittenBy(ws, 1, Len(ws)))

\* ------------------------------------------------------------ matrix
\* positions spaced as with endpoint=False
LocsOpen(width, count) ==
    [i \in 1..count |-> << (i - 1) * (width - 1), count >>]

\* np.linspace(0, width-1, num=count, endpoint=True), each position kept as
\* the exact quotient <<numerator, denominator>>.  For the widths the model
\* draws the script's doubles round to the same column as the exact quotient.
Locs(width, count) ==
    IF count = 1 THEN << <<0, 1>> >>
    ELSE [i \in 1..count |->
             IF i = count THEN << width - 1, 1 >>
             ELSE << (i - 1) * (width - 1), count - 1 >>]

\* int(round(pos)), a tie going to the even neighbour
RoundRatio(pos) ==
    LET q == pos[1] \div pos[2]
        r == pos[1] % pos[2]
    IN  IF 2 * r < pos[2] THEN q
        ELSE IF 2 * r > pos[2] THEN q + 1
        ELSE IF q % 2 = 0 THEN q ELSE q + 1

\* idx = int(round(pos)); if idx >= width: idx = width-1
Col(width, pos) ==
    IF RoundRatio(pos) >= width THEN width - 1 ELSE RoundRatio(pos)

\* row_arr[idx] = str(current_ch + i), for i = lo, ..., hi in that order:
\* the slots assigned (1-based) and what they hold at the end, a slot
\* assigned again holding the later channel (the range is halved to keep the
\* recursion shallow)
RECURSIVE Place(_, _, _, _, _)
Place(width, locs, lo, hi, ch) ==
    IF lo = hi THEN (Col(width, locs[lo + 1]) + 1) :> (ch + lo)
    ELSE LET mid == (lo + hi) \div 2
         IN  Place(width, locs, mid + 1, hi, ch) @@ Place(width, locs, lo, mid, ch)

\* row_arr = [""] * width, then the assignments.  A cell holds the channel
\* number, or 0 for the empty string.
RowArr(width, count, ch) ==
    LET placed == Place(width, Locs(width, count), 0, count - 1, ch)
    IN  [c \in 1..width |-> IF c \in DOMAIN placed THEN placed[c] ELSE 0]

\* a row that is never reversed
RowUnreversed(width, count, is_rev, ch) == RowArr(width, count, ch)

\* the row of one ring
Row(width, count, is_rev, ch) ==
    IF is_rev THEN Reverse(RowArr(width, count, ch)) ELSE RowArr(width, count, ch)

\* a flip that also reverses every row
FlipRowsAndCells(rows_built, do_flip) ==
    IF do_flip
    THEN [k \in 1..Len(rows_built) |->
             Reverse(rows_built[Len(rows_built) + 1 - k])]
    ELSE rows_built

\* if do_flip: rows.reverse()
FlipRows(rows_built, do_flip) ==
    IF do_flip THEN Reverse(rows_built) ELSE rows_built

\* ------------------------------------------------------------ files
FILE_3D == "atlas_v2_3D.xmodel"
FILE_2D == "atlas_v2_2D.xmodel"
FILE_CSV == "atlas_v2.csv"

\* the outcomes of "with open(name, 'w') as f: f.write(...)"
IoOutcomes == {"ok", "open_fails", "write_fails"}

NoFiles == [n \in {} |-> "written"]
SetFile(fs, name, st) ==
    [n \in DOMAIN fs \cup {name} |-> IF n = name THEN st ELSE fs[n]]

\* the file system after an attempt to write the whole of a file
AfterWrite(fs, name, outcome) ==
    IF outcome = "ok" THEN SetFile(fs, name, "written")
    ELSE IF outcome = "write_fails" THEN SetFile(fs, name, "partial")
    ELSE fs

\* a report row whose end channel is one too far
CsvRowEndExclusive(ring_num, count, is_reversed, report_led) ==
    [ring |-> ring_num,
     direction |-> IF is_reversed THEN "Reverse ( <--- )" ELSE "Normal ( ---> )",
     count |-> count,
     start |-> report_led,
     end |-> report_led + count]

\* a row of the CSV report
CsvRow(ring_num, count, is_reversed, report_led) ==
    [ring |-> ring_num,
     direction |-> IF is_reversed THEN "Reverse ( <--- )" ELSE "Normal ( ---> )",
     count |-> count,
     start |-> report_led,
     end |-> report_led + count - 1]

\* ------------------------------------------------------------ state
VARIABLES rings_config, GRID_SIZE, MATRIX_WIDTH, FLIP_VERTICALLY,
          pc, stdout, files, io_failed,
          positions, current_channel, i3, writes,
          rows, current_ch, i2, matrix_data,
          report_led, csv, ic

vars == << rings_config, GRID_SIZE, MATRIX_WIDTH, FLIP_VERTICALLY,
           pc, stdout, files, io_failed,
           positions, current_channel, i3, writes,
           rows, current_ch, i2, matrix_data,
           report_led, csv, ic >>

config == << rings_config, GRID_SIZE, MATRIX_WIDTH, FLIP_VERTICALLY >>
io == << stdout, files, io_failed >>
locals3d == << positions, current_channel, i3, writes >>
locals2d == << rows, current_ch, i2, matrix_data >>
localsCsv == << report_led, csv, ic >>

sorted_rings == Sorted(DOMAIN rings_config)
total_rings == Cardinality(DOMAIN rings_config)

RingSpecs == (1..MaxLeds) \X BOOLEAN
RingIdSets == {S \in SUBSET RingIds : S # {}}

\* The module's configuration: the one the script ships with, or a small
\* ring table, grid and matrix put in its place.
Init ==
    /\ \/ /\ rings_config = ShippedRings
          /\ GRID_SIZE = ShippedGridSize
          /\ MATRIX_WIDTH = ShippedMatrixWidth
          /\ FLIP_VERTICALLY = ShippedFlipVertically
       \/ /\ \E S \in RingIdSets : rings_config \in [S -> RingSpecs]
          /\ GRID_SIZE \in GridSizes
          /\ MATRIX_WIDTH \in 1..MaxWidth
          /\ FLIP_VERTICALLY \in BOOLEAN
    /\ pc = "calc3d_begin"
    /\ stdout = <<>>
    /\ files = NoFiles
    /\ io_failed = "none"
    /\ positions = <<>>
    /\ current_channel = 0
    /\ i3 = 0
    /\ writes = <<>>
    /\ rows = <<>>
    /\ current_ch = 0
    /\ i2 = 0
    /\ matrix_data = <<>>
    /\ report_led = 0
    /\ csv = <<>>
    /\ ic = 0

\* the first print, then calculate_physically_accurate_positions up to its
\* loop
Calc3DBegin ==
    /\ pc = "calc3d_begin"
    /\ positions' = <<>>
    /\ current_channel' = 1
    /\ i3' = 0
    /\ LET out == Append(stdout, "1. Calculating 3D positions (1:1 Spacing)...")
       IN  stdout' =
             IF TotalHeightVoxels(rings_config, GRID_SIZE) > (GRID_SIZE - 2) * FP
             THEN Append(out, "WARNING: Model is too tall")
             ELSE out
    /\ pc' = "calc3d"
    /\ UNCHANGED << config, files, io_failed, writes, locals2d, localsCsv >>

\* one iteration of the loop over sorted_rings
Calc3DRing ==
    /\ pc = "calc3d"
    /\ i3 < total_rings
    /\ LET ring_num == sorted_rings[i3 + 1]
           ws == RingWrites(rings_config, GRID_SIZE, FLIP_VERTICALLY, i3,
                            ring_num, current_channel)
       IN  /\ positions' = ApplyWrites(positions, ws)
           /\ writes' = writes \o ws
           /\ current_channel' = NextChannel(current_channel, rings_config[ring_num][1])
    /\ i3' = i3 + 1
    /\ UNCHANGED << config, pc, io, locals2d, localsCsv >>

\* return positions; the second print; then generate_2d_matrix up to its
\* loop
Calc3DReturn ==
    /\ pc = "calc3d"
    /\ i3 = total_rings
    /\ stdout' = Append(stdout, "2. Generating 2D Matrix...")
    /\ rows' = <<>>
    /\ current_ch' = 1
    /\ i2' = 0
    /\ pc' = "gen2d"
    /\ UNCHANGED << config, files, io_failed, locals3d, matrix_data, localsCsv >>

\* one iteration of the loop of generate_2d_matrix
Gen2DRing ==
    /\ pc = "gen2d"
    /\ i2 < total_rings
    /\ LET r == sorted_rings[i2 + 1]
           count == rings_config[r][1]
           is_rev == rings_config[r][2]
       IN  /\ rows' = Append(rows, Row(MATRIX_WIDTH, count, is_rev, current_ch))
           /\ current_ch' = NextCh(current_ch, count)
    /\ i2' = i2 + 1
    /\ UNCHANGED << config, pc, io, locals3d, matrix_data, localsCsv >>

\* the end of generate_2d_matrix: the flip of the rows, and the return
Gen2DReturn ==
    /\ pc = "gen2d"
    /\ i2 = total_rings
    /\ rows' = FlipRows(rows, FLIP_VERTICALLY)
    /\ matrix_data' = FlipRows(rows, FLIP_VERTICALLY)
    /\ pc' = "write3d"
    /\ UNCHANGED << config, io, locals3d, current_ch, i2, localsCsv >>

\* with open('atlas_v2_3D.xmodel', 'w') as f: f.write(xml_3d)
\* No handler surrounds it: an exception ends the run.
Write3D ==
    /\ pc = "write3d"
    /\ \E outcome \in IoOutcomes :
        /\ files' = AfterWrite(files, FILE_3D, outcome)
        /\ IF outcome = "ok"
           THEN /\ stdout' = Append(stdout, "-> atlas_v2_3D.xmodel created.")
                /\ pc' = "write2d"
                /\ UNCHANGED io_failed
           ELSE /\ io_failed' = FILE_3D
                /\ pc' = "aborted"
                /\ UNCHANGED stdout
    /\ UNCHANGED << config, locals3d, locals2d, localsCsv >>

\* a write of the 2D model whose failure is swallowed
Write2DCaught ==
    /\ pc = "write2d"
    /\ \E outcome \in IoOutcomes :
        /\ files' = AfterWrite(files, FILE_2D, outcome)
        /\ IF outcome = "ok"
           THEN /\ stdout' = Append(stdout, "-> atlas_v2_2D.xmodel created.")
                /\ UNCHANGED io_failed
           ELSE /\ io_failed' = FILE_2D
                /\ stdout' = Append(stdout, "Error")
        /\ pc' = "csv_open"
    /\ UNCHANGED << config, locals3d, locals2d, localsCsv >>

\* with open('atlas_v2_2D.xmodel', 'w') as f: f.write(xml_2d)
Write2D ==
    /\ pc = "write2d"
    /\ \E outcome \in IoOutcomes :
        /\ files' = AfterWrite(files, FILE_2D, outcome)
        /\ IF outcome = "ok"
           THEN /\ stdout' = Append(stdout, "-> atlas_v2_2D.xmodel created.")
                /\ pc' = "csv_open"
                /\ UNCHANGED io_failed
           ELSE /\ io_failed' = FILE_2D
                /\ pc' = "aborted"
                /\ UNCHANGED stdout
    /\ UNCHANGED << config, locals3d, locals2d, localsCsv >>

\* except Exception as e: print(f"Error: {e}"); the script then ends normally
CsvExcept(name) ==
    /\ io_failed' = name
    /\ stdout' = Append(stdout, "Error")
    /\ pc' = "done"

\* open('atlas_v2.csv', 'w') and the header line, inside the try
CsvOpen ==
    /\ pc = "csv_open"
    /\ \E outcome \in IoOutcomes :
        IF outcome = "ok"
        THEN /\ files' = SetFile(files, FILE_CSV, "partial")
             /\ report_led' = 1
             /\ ic' = 0
             /\ csv' = <<>>
             /\ pc' = "csv_loop"
             /\ UNCHANGED << stdout, io_failed >>
        ELSE /\ files' = AfterWrite(files, FILE_CSV, outcome)
             /\ CsvExcept(FILE_CSV)
             /\ UNCHANGED localsCsv
    /\ UNCHANGED << config, locals3d, locals2d >>

\* one iteration of the CSV loop
CsvRing ==
    /\ pc = "csv_loop"
    /\ ic < total_rings
    /\ LET ring_num == sorted_rings[ic + 1]
           count == rings_config[ring_num][1]
           is_reversed == rings_config[ring_num][2]
       IN  \E ok \in BOOLEAN :
            IF ok
            THEN /\ csv' = Append(csv, CsvRow(ring_num, count, is_reversed, report_led))
                 /\ report_led' = NextReportLed(report_led, count)
                 /\ ic' = ic + 1
                 /\ UNCHANGED << pc, io >>
            ELSE /\ CsvExcept(FILE_CSV)
                 /\ UNCHANGED << files, localsCsv >>
    /\ UNCHANGED << config, locals3d, locals2d >>

\* the end of the with block, which closes the file, and the last print.
\* The close flushes what the writes buffered and can raise as they can: the
\* handler then prints the error in place of the last print.
CsvClose ==
    /\ pc = "csv_loop"
    /\ ic = total_rings
    /\ \E ok \in BOOLEAN :
        IF ok
        THEN /\ files' = SetFile(files, FILE_CSV, "written")
             /\ stdout' = Append(stdout, "-> atlas_v2.csv created.")
             /\ pc' = "done"
             /\ UNCHANGED io_failed
        ELSE /\ CsvExcept(FILE_CSV)
             /\ UNCHANGED files
    /\ UNCHANGED << config, locals3d, locals2d, localsCsv >>

Next ==
    \/ Calc3DBegin
    \/ Calc3DRing
    \/ Calc3DReturn
    \/ Gen2DRing
    \/ Gen2DReturn
    \/ Write3D
    \/ Write2D
    \/ CsvOpen
    \/ CsvRing
    \/ CsvClose

Spec == Init /\ [][Next]_vars

\* ------------------------------------------------------------ properties
\* the first k numbers of a sequence, added up
RECURSIVE SumSeq(_, _)
SumSeq(s, k) == IF k = 0 THEN 0 ELSE SumSeq(s, k - 1) + s[k]

\* the led counts of the rings, in ring id order
CountsInOrder ==
    LET order == sorted_rings
    IN  [k \in 1..Len(order) |-> rings_config[order[k]][1]]

\* The led counts of the first k rings in ring id order, added up.
SumCounts(k) == SumSeq(CountsInOrder, k)

CountOf(k) == rings_config[sorted_rings[k]][1]
RevOf(k) == rings_config[sorted_rings[k]][2]
BlockStart(k) == 1 + SumCounts(k - 1)
BlockEnd(k) == SumCounts(k)
Block(k) == BlockStart(k)..BlockEnd(k)

\* the voxel writes of the k-th ring, and their channels
WriteIdx(k) ==
    LET r == sorted_rings[k]
    IN  {j \in 1..Len(writes) : writes[j].ring = r}
WriteChannels(k) == {writes[j].ch : j \in WriteIdx(k)}
\* the channels a matrix row holds
RowChannels(row) == {row[c] : c \in 1..Len(row)} \ {0}

Started2D == pc \notin {"calc3d_begin", "calc3d"}
StartedCsv == pc = "csv_loop" \/ (pc = "done" /\ report_led > 0)

\* C1: each of the three running counters starts at 1 and, ring by ring in
\* ascending ring id order, stands at 1 plus the led counts of the rings
\* already processed; the ring processed k-th is given exactly the block
\* [1 + sum of earlier counts, sum of counts up to it], so that the blocks
\* are contiguous and disjoint, and after the last ring the counter minus 1
\* is the sum of all led counts.  Each loop is examined in every state of
\* its own run, its last state included: nothing changes its variables
\* afterwards (the matrix rows are flipped on return, not renumbered).
C1_ChannelBlocks ==
    /\ pc = "calc3d" =>
        /\ current_channel = 1 + SumCounts(i3)
        /\ \A k \in 1..i3 : WriteChannels(k) = Block(k)
        /\ \A k \in 1..(i3 - 1) :
             \A a \in WriteChannels(k), b \in WriteChannels(k + 1) : a < b
        /\ i3 = total_rings => current_channel - 1 = SumCounts(total_rings)
    /\ pc = "gen2d" =>
        /\ current_ch = 1 + SumCounts(i2)
        /\ \A k \in 1..Len(rows) :
             /\ RowChannels(rows[k]) \subseteq Block(k)
             /\ BlockEnd(k) \in RowChannels(rows[k])
             /\ CountOf(k) <= MATRIX_WIDTH => RowChannels(rows[k]) = Block(k)
        /\ i2 = total_rings => current_ch - 1 = SumCounts(total_rings)
    /\ StartedCsv =>
        /\ report_led = 1 + SumCounts(ic)
        /\ ic = Len(csv)
        /\ \A k \in 1..Len(csv) :
             csv[k].start = BlockStart(k) /\ csv[k].end = BlockEnd(k)
        /\ ic = total_rings => report_led - 1 = SumCounts(total_rings)

\* a complete run over two rings of different sizes
C1_Witness ==
    /\ pc = "done"
    /\ io_failed = "none"
    /\ total_rings = 2
    /\ CountOf(1) = 3
    /\ CountOf(2) = 2
    /\ current_channel = 6
    /\ current_ch = 6
    /\ report_led = 6

\* C3: every key of the voxel map lies in the grid on all three axes.
C3_VoxelsInGrid ==
    \A c \in DOMAIN positions :
        \A axis \in 1..3 : 0 <= c[axis] /\ c[axis] <= GRID_SIZE - 1

\* the map holds cells of LEDs that rounded outside the grid: beyond its
\* far side through the radius, and below zero through the height
C3_Witness ==
    /\ Started2D
    /\ \E j \in 1..Len(writes) :
         writes[j].raw[1] > GRID_SIZE - 1 /\ writes[j].cell \in DOMAIN positions
    /\ \E j \in 1..Len(writes) :
         writes[j].raw[2] < 0 /\ writes[j].cell \in DOMAIN positions
    /\ \E j \in 1..Len(writes) : writes[j].raw[2] > GRID_SIZE - 1

\* C4: in the voxel loop slot p of a ring gets channel start + p when the
\* ring is not reversed and start + (led_count - 1 - p) when it is, start
\* being 1 plus the led counts of the earlier rings whatever their flags; the
\* channels of the ring's slots are the same set either way, and reversing
\* the list of offsets twice gives the list back.  (Stated of every state of
\* the voxel loop, its last included.)
C4_ReversalPermutes ==
    pc = "calc3d" =>
        \A k \in 1..i3 :
            /\ LET start == BlockStart(k)
                   led_count == CountOf(k)
                   is_reversed == RevOf(k)
               IN  \A j \in WriteIdx(k) :
                     writes[j].ch =
                        IF is_reversed
                        THEN start + (led_count - 1 - writes[j].slot)
                        ELSE start + writes[j].slot
            /\ {writes[j].slot : j \in WriteIdx(k)} = 0..(CountOf(k) - 1)
            /\ WriteChannels(k) = Block(k)
            /\ Reverse(PixelIndices(CountOf(k), RevOf(k)))
                 = PixelIndices(CountOf(k), ~RevOf(k))
            /\ Reverse(Reverse(PixelIndices(CountOf(k), RevOf(k))))
                 = PixelIndices(CountOf(k), RevOf(k))

\* a reversed ring of three LEDs after an earlier reversed ring
C4_Witness ==
    /\ Started2D
    /\ total_rings = 2
    /\ RevOf(1) /\ RevOf(2)
    /\ CountOf(1) = 2 /\ CountOf(2) = 3
    /\ \E j \in WriteIdx(2) : writes[j].slot = 0 /\ writes[j].ch = 5

\* the index of the last write to a cell
LastWrite(cell) ==
    CHOOSE j \in 1..Len(writes) :
        /\ writes[j].cell = cell
        /\ \A m \in (j + 1)..Len(writes) : writes[m].cell # cell

\* the 0-based position of a ring id in ring id order
IndexOfRing(r) == Cardinality({q \in DOMAIN rings_config : q < r})

\* C10: the voxel map holds, for every cell an LED rounded to, the channel
\* of the LED written to it last, the LEDs being written ring by ring in
\* ascending ring id order and slot by slot within a ring; every value is a
\* channel between 1 and the sum of the led counts; and a collision does not
\* end the run: only a failed file write does.  (The map is examined in every
\* state of the voxel loop, its last included; it does not change afterwards.)
C10_LastWriteWins ==
    /\ pc = "calc3d" =>
        /\ DOMAIN positions = {writes[j].cell : j \in 1..Len(writes)}
        /\ \A c \in DOMAIN positions : positions[c] = writes[LastWrite(c)].ch
        /\ \A c \in DOMAIN positions :
             1 <= positions[c] /\ positions[c] <= SumCounts(total_rings)
        /\ \A j \in 1..(Len(writes) - 1) :
             \/ /\ writes[j + 1].ring = writes[j].ring
                /\ writes[j + 1].slot = writes[j].slot + 1
             \/ /\ writes[j + 1].ring > writes[j].ring
                /\ writes[j + 1].slot = 0
        /\ Len(writes) = SumCounts(i3)
    /\ pc = "aborted" => io_failed \in {FILE_3D, FILE_2D}

\* a run that ended normally although LEDs of one ring, and LEDs of two
\* rings, rounded to the same cell, the earlier channel being lost
C10_Witness ==
    /\ pc = "done"
    /\ io_failed = "none"
    /\ \E j, m \in 1..Len(writes) :
         /\ j < m
         /\ writes[j].cell = writes[m].cell
         /\ writes[j].ring = writes[m].ring
         /\ positions[writes[j].cell] # writes[j].ch
    /\ \E j, m \in 1..Len(writes) :
         /\ j < m
         /\ writes[j].cell = writes[m].cell
         /\ writes[j].ring # writes[m].ring
         /\ positions[writes[j].cell] = writes[m].ch

\* some ring has more LEDs than the matrix is wide
TooWide == \E r \in DOMAIN rings_config : rings_config[r][1] > MATRIX_WIDTH

\* C2: with a ring of more LEDs than the matrix is wide, matrix generation
\* fails and the run ends before any of the three files is written: no such
\* run reaches a file write, and none completes.
C2_TooWideRejected ==
    TooWide =>
        /\ pc \notin {"write3d", "write2d", "csv_open", "csv_loop", "done"}
        /\ files = NoFiles

\* how often a channel occurs in a row
Occurrences(row, ch) == Cardinality({c \in 1..Len(row) : row[c] = ch})

\* C5: a ring of 1 <= led_count <= matrix_width LEDs gets a row of exactly
\* matrix_width slots of which exactly led_count are occupied, each channel
\* of the ring's block occurring exactly once (no two LEDs share a column);
\* with led_count = matrix_width every column is occupied, and the ring
\* (4, not reversed) in a matrix of width 4 gets the row 1,2,3,4.
C5_NoColumnCollision ==
    pc = "gen2d" =>
        \A k \in 1..Len(rows) :
            /\ Len(rows[k]) = MATRIX_WIDTH
            /\ CountOf(k) <= MATRIX_WIDTH =>
                /\ Cardinality({c \in 1..MATRIX_WIDTH : rows[k][c] # 0}) = CountOf(k)
                /\ \A ch \in Block(k) : Occurrences(rows[k], ch) = 1
                /\ CountOf(k) = MATRIX_WIDTH => \A c \in 1..MATRIX_WIDTH : rows[k][c] # 0
            /\ (k = 1 /\ CountOf(1) = 4 /\ ~RevOf(1) /\ MATRIX_WIDTH = 4) =>
                 rows[1] = <<1, 2, 3, 4>>

\* a ring as wide as the matrix fills its row, after a ring of fewer LEDs
\* than columns has been spread over its own
C5_Witness ==
    /\ pc = "gen2d"
    /\ Len(rows) = 2
    /\ MATRIX_WIDTH = 4
    /\ CountOf(1) = 3
    /\ CountOf(2) = 4
    /\ rows[1] = <<1, 0, 2, 3>>
    /\ rows[2] = <<4, 5, 6, 7>>

\* the place of the k-th ring's row in the emitted matrix
RowOfRing(k) == IF FLIP_VERTICALLY THEN total_rings + 1 - k ELSE k

\* the smallest and the largest element of a set of channels
Least(S) == CHOOSE x \in S : \A y \in S : x <= y
Greatest(S) == CHOOSE x \in S : \A y \in S : y <= x

\* C6: the CSV row written k-th is that of the k-th ring in ascending ring
\* id order, and its Start and End Channel are the first and the last channel
\* of the block the voxel loop wrote for that ring and of the block its
\* matrix row was filled from; flip_vertically changes none of this.
C6_CsvMatchesBlocks ==
    (pc = "csv_loop" \/ (pc = "done" /\ report_led > 0)) =>
        \A k \in 1..Len(csv) :
            /\ csv[k].ring = sorted_rings[k]
            /\ csv[k].count = CountOf(k)
            /\ csv[k].start = Least(WriteChannels(k))
            /\ csv[k].end = Greatest(WriteChannels(k))
            /\ csv[k].end = Greatest(RowChannels(matrix_data[RowOfRing(k)]))
            /\ \A ch \in RowChannels(matrix_data[RowOfRing(k)]) : csv[k].start <= ch
            /\ CountOf(k) <= MATRIX_WIDTH =>
                 csv[k].start = Least(RowChannels(matrix_data[RowOfRing(k)]))

\* a complete report of three rings, written with the vertical flip on
C6_Witness ==
    /\ pc = "done"
    /\ io_failed = "none"
    /\ FLIP_VERTICALLY
    /\ total_rings = 3
    /\ Len(csv) = 3
    /\ CountOf(1) = 2 /\ CountOf(2) = 1 /\ CountOf(3) = 3
    /\ MATRIX_WIDTH = 3
    /\ csv[3].start = 4 /\ csv[3].end = 6
    /\ matrix_data[1] = <<4, 5, 6>>

\* C7: the return of generate_2d_matrix emits, with the flip on, the rows as
\* built in the reverse order, each row as it was built, and with the flip
\* off the rows as built; flipping the emitted list of rows once more gives
\* the rows as built back.  Rings {1:(2,F), 2:(2,F)} at width 2 with the flip
\* on give the rows 3,4 then 1,2.
C7_FlipReversesRows ==
    [][(pc = "gen2d" /\ pc' = "write3d") =>
        /\ Len(matrix_data') = Len(rows)
        /\ \A k \in 1..Len(rows) :
             matrix_data'[k] =
                IF FLIP_VERTICALLY THEN rows[Len(rows) + 1 - k] ELSE rows[k]
        /\ FlipRows(matrix_data', FLIP_VERTICALLY) = rows
        /\ (/\ FLIP_VERTICALLY
            /\ MATRIX_WIDTH = 2
            /\ DOMAIN rings_config = {1, 2}
            /\ rings_config[1] = <<2, FALSE>>
            /\ rings_config[2] = <<2, FALSE>>) =>
                matrix_data' = << <<3, 4>>, <<1, 2>> >>]_vars

\* a flipped matrix of three rows whose first and last rows are not mirror
\* images of themselves
C7_Witness ==
    /\ pc = "write3d"
    /\ FLIP_VERTICALLY
    /\ Len(matrix_data) = 3
    /\ MATRIX_WIDTH = 3
    /\ matrix_data = << <<5, 0, 6>>, <<3, 0, 4>>, <<1, 0, 2>> >>

\* C8 as stated: a failure writing any of the three files ends the run
\* with pc = "aborted" (an exception nobody caught).
C8_EveryWriteFailureAborts ==
    io_failed # "none" => pc = "aborted"

\* C8, amended: a failure writing the 3D or the 2D model file is caught by
\* nobody and ends the run there, no later file being touched; a failure
\* opening, writing or closing the CSV report is caught, "Error" is printed
\* in place of the report's "created" line and the run ends normally, both
\* model files written.  The writes come in the order 3D, 2D, CSV.
C8_WriteFailures ==
    /\ io_failed = FILE_3D =>
         pc = "aborted" /\ DOMAIN files \subseteq {FILE_3D}
    /\ io_failed = FILE_2D =>
         /\ pc = "aborted"
         /\ FILE_CSV \notin DOMAIN files
         /\ FILE_3D \in DOMAIN files /\ files[FILE_3D] = "written"
    /\ io_failed = FILE_CSV =>
         /\ pc = "done"
         /\ stdout[Len(stdout)] = "Error"
         /\ \A n \in 1..Len(stdout) : stdout[n] # "-> atlas_v2.csv created."
         /\ FILE_3D \in DOMAIN files /\ files[FILE_3D] = "written"
         /\ FILE_2D \in DOMAIN files /\ files[FILE_2D] = "written"
         /\ FILE_CSV \in DOMAIN files => files[FILE_CSV] = "partial"
    /\ pc = "aborted" => io_failed \in {FILE_3D, FILE_2D}
    /\ FILE_2D \in DOMAIN files =>
         FILE_3D \in DOMAIN files /\ files[FILE_3D] = "written"
    /\ FILE_CSV \in DOMAIN files =>
         FILE_2D \in DOMAIN files /\ files[FILE_2D] = "written"

\* the CSV report failed half way: the run ended normally
C8_Witness ==
    /\ io_failed = FILE_CSV
    /\ pc = "done"
    /\ Len(csv) = 1
    /\ total_rings = 2
    /\ files[FILE_CSV] = "partial"

\* the columns of a ring's LEDs, in generation order
Cols(width, count) ==
    LET locs == Locs(width, count)
    IN  [i \in 1..count |-> Col(width, locs[i])]

\* the last LED (1-based) the matrix loop puts in slot c of a row (1-based),
\* or 0 when it puts none there; cols are the columns of the LEDs
LastAt(cols, c) ==
    IF \E i \in 1..Len(cols) : cols[i] + 1 = c
    THEN CHOOSE i \in 1..Len(cols) :
            /\ cols[i] + 1 = c
            /\ \A m \in (i + 1)..Len(cols) : cols[m] + 1 # c
    ELSE 0

\* the row of a ring as the matrix loop places it, before any reversal
PlacedRow(width, count, ch) ==
    LET cols == Cols(width, count)
        last == [c \in 1..width |-> LastAt(cols, c)]
    IN  [c \in 1..width |-> IF last[c] = 0 THEN 0 ELSE ch + last[c] - 1]

\* the row reversed the voxel loop's way: the columns kept, slot i given the
\* channel ch + pixel_indices[i] of the reversed offsets
VoxelStyleRow(width, count, ch) ==
    LET cols == Cols(width, count)
        last == [c \in 1..width |-> LastAt(cols, c)]
        px == PixelIndices(count, TRUE)
    IN  [c \in 1..width |-> IF last[c] = 0 THEN 0 ELSE ch + px[last[c]]]

\* the placement is its own mirror image
Symmetric(width, count) ==
    LET cols == Cols(width, count)
    IN  \A i \in 1..count : cols[count + 1 - i] = width - 1 - cols[i]

\* C9 as stated: for every reversed ring with led_count <= W the matrix
\* row equals the row reversed the voxel loop's way.
C9_MatrixReversalIsVoxelReversal ==
    pc = "gen2d" =>
        \A k \in 1..Len(rows) :
            (RevOf(k) /\ CountOf(k) <= MATRIX_WIDTH) =>
                rows[k] = VoxelStyleRow(MATRIX_WIDTH, CountOf(k), BlockStart(k))

\* C9, amended: the matrix row of a reversed ring with led_count <= W is the
\* mirror image of the row as placed (channel start + i at column
\* W - 1 - col(i)); it holds the same channels as the row reversed the voxel
\* loop's way, and it equals that row exactly when the placement is its own
\* mirror image (col(led_count - 1 - i) = W - 1 - col(i) for every i), as it
\* is for led_count = W.
C9_MatrixReversalMirrors ==
    pc = "gen2d" =>
        \A k \in 1..Len(rows) :
            (RevOf(k) /\ CountOf(k) <= MATRIX_WIDTH) =>
                LET v == VoxelStyleRow(MATRIX_WIDTH, CountOf(k), BlockStart(k))
                    p == PlacedRow(MATRIX_WIDTH, CountOf(k), BlockStart(k))
                IN  /\ \A c \in 1..MATRIX_WIDTH :
                         rows[k][c] = p[MATRIX_WIDTH + 1 - c]
                    /\ RowChannels(rows[k]) = RowChannels(v)
                    /\ (rows[k] = v) <=> Symmetric(MATRIX_WIDTH, CountOf(k))
                    /\ CountOf(k) = MATRIX_WIDTH => rows[k] = v

\* a reversed ring of three LEDs in a matrix of width 4, whose middle LED
\* the mirror puts in column 1 where the voxel way puts it in column 2,
\* after a reversed ring of four LEDs for which the two ways agree
C9_Witness ==
    /\ pc = "gen2d"
    /\ MATRIX_WIDTH = 4
    /\ Len(rows) = 2
    /\ RevOf(1) /\ CountOf(1) = 4
    /\ RevOf(2) /\ CountOf(2) = 3
    /\ rows[1] = <<4, 3, 2, 1>>
    /\ rows[2] = <<7, 6, 0, 5>>
    /\ VoxelStyleRow(4, 3, 5) = <<7, 0, 6, 5>>

====
